---- MODULE Spec2Model ----
(***************************************************************************)
(* PROJECT_HIVE orchestration core.                                        *)
(*                                                                         *)
(* Part 1: NeuralGraphEngine (core/graph_engine/engine.py) together with   *)
(* the fields of NeuralState (core/graph_engine/state.py) that the engine  *)
(* reads and writes (step, errors).                                        *)
(*                                                                         *)
(* A node is opaque to the engine: an invocation either returns a state or *)
(* raises, and takes some time.  Both are environment choices here.  A     *)
(* node that returns hands back the state it was given (step and errors    *)
(* untouched by the node itself).                                          *)
(***************************************************************************)
EXTENDS Integers, Sequences, FiniteSets, TLC

\* ---------------------------------------------------------------- bounds
\* Node names offered to add_node / add_edge / set_start.
Names == {"a", "b"}
\* Longest edge list built by add_edge.
MaxEdges == 2
\* Largest integer handed to the constructor as max_retries.
MaxRetriesArg == 1
\* Value of the elapsed-time ceiling (clock ticks) when the settings object
\* carries one.
ExecTimeCeiling == 1

\* ------------------------------------------------------------- constants
\* Settings.MAX_RETRIES
MAX_RETRIES == 3

\* Optional[str] = None
None == "None"

\* Edge conditions: absent (None) or the predicate "state.errors is non-empty".
Conditions == {"None", "has_errors"}

\* Optional[int] as a sequence of length <= 1: <<>> is None, <<n>> is n.
\* The constructor is given None or a retry count 0..MaxRetriesArg.
RetryArgs == {<<>>} \cup {<<n>> : n \in 0..MaxRetriesArg}

VARIABLES
    maxRetriesArg,   \* the max_retries argument given to __init__
    max_retries,     \* self._max_retries
    hasCeiling,      \* whether the settings object has MAX_EXECUTION_TIME
    nodes,           \* self._nodes (its key set)
    edges,           \* self._edges
    start,           \* self._start
    call,            \* the last public call and the exception it raised
    pc,              \* position inside execute
    current,         \* execute: current
    visited,         \* execute: visited
    retries,         \* execute: retries
    step,            \* state.step
    errors,          \* state.errors
    elapsed,         \* loop.time() - start_time
    attempts,        \* history: invocations of each node in this execute
    completed,       \* history: nodes whose result was adopted, in order
    budget,          \* state.budget
    budget_used,     \* state.budget_used
    \* --- ConsensusEngine.evaluate, applied to drawn inputs
    cStrategy,       \* evaluate: strategy
    cVotes,          \* evaluate: votes
    cResult,         \* <<>> before the call, <<outcome>> after it
    \* --- SwarmCoordinator.orchestrate
    agents,          \* config.agents (names, in list order)
    strategy,        \* config.strategy
    max_rounds,      \* config.max_rounds
    spc,             \* position inside orchestrate
    round_no,        \* orchestrate: round_no
    agentIdx,        \* orchestrate: position of the inner for-loop
    votes,           \* orchestrate: votes
    sstate,          \* orchestrate: state (messages, errors, step)
    history,         \* conversation.history
    caller,          \* history: the state the caller passed in
    invocations,     \* history: every agent.execute call and its outcome
    evals,           \* history: every consensus evaluation
    view,            \* what the last read of the conversation returned
    \* --- a NeuralState operated on directly
    ns,              \* the NeuralState object
    nsCall,          \* the last call made on it, with its arguments
    \* --- TaskQueueManager
    tasks,           \* self.tasks, in order of submission (task id = index)
    task_queue,      \* self.task_queue
    running,         \* self._running
    max_workers,     \* self.max_workers
    workerThread,    \* position of self._worker_thread in _worker_loop
    workerTask,      \* _worker_loop: task_id (0 when it holds none)
    executorShutdown,\* whether self.executor has been shut down
    workItems,       \* work queued in self.executor
    poolThreads,     \* task ids the pool threads are processing
    lifecycle,       \* position of the thread that calls start() and stop()
    qCall,           \* the last submit_task / cancel_task call and its result
    processed,       \* history: how often each task's pipeline was run
    \* --- LLMRouter.route
    routeMessages,   \* route: the messages argument
    stateMessages,   \* route: state.messages
    apiKey,          \* whether settings.OPENAI_API_KEY is set
    rpc,             \* position inside route
    requests,        \* history: the providers requests were sent to
    response,        \* <<>> before the return, <<provider>> after it
    \* --- which of the entry points the behaviour exercises
    part             \* "graph", "consensus", "swarm", "state", "queue" or "router"

consensusVars == <<cStrategy, cVotes, cResult>>

swarmConfig == <<agents, strategy, max_rounds>>
swarmVars == <<swarmConfig, spc, round_no, agentIdx, votes, sstate, history,
               caller, invocations, evals, view>>

stateVars == <<ns, nsCall>>
queueVars == <<tasks, task_queue, running, max_workers, workerThread,
               workerTask, executorShutdown, workItems, poolThreads,
               lifecycle, qCall, processed>>
routerVars == <<routeMessages, stateMessages, apiKey, rpc, requests, response>>
serviceVars == <<queueVars, routerVars>>
budgetVars == <<budget, budget_used>>

vars == <<maxRetriesArg, max_retries, hasCeiling, nodes, edges, start, call,
          pc, current, visited, retries, step, errors, elapsed, attempts,
          completed, budgetVars, consensusVars, swarmVars, stateVars, serviceVars, part>>

engineVars == <<maxRetriesArg, max_retries, hasCeiling>>
graphVars == <<nodes, edges, start>>
runVars == <<current, visited, retries, step, errors, elapsed, attempts,
             completed>>

\* ------------------------------------------------------------ NeuralState
\* add_error as it would be if the newest record were put first.
add_error_newest_first(errs, error_type, message, details) ==
    <<[type |-> error_type, message |-> message, details |-> details]>> \o errs

\* NeuralState.add_error: append {type, message, details}.
add_error(errs, error_type, message, details) ==
    Append(errs, [type |-> error_type, message |-> message, details |-> details])

\* NeuralState.next_step
next_step(s) == s + 1

\* budget: float = 10.0, in millionths of a dollar (the unit in which the
\* per-token price of BudgetManager.estimate_cost is a whole number).
DefaultBudget == 10000000

\* NeuralState.__init__ : the state right after construction.
NewState == [messages |-> <<>>, errors |-> <<>>, artifacts |-> <<>>,
             artifacts_meta |-> <<>>, step |-> 0, budget |-> DefaultBudget,
             budget_used |-> 0]

\* The directly operated NeuralState when none is in use.
StateIdle ==
    /\ ns = NewState
    /\ nsCall = [op |-> "init", args |-> <<>>]

\* The swarm part when no coordinator is in use.
SwarmIdle ==
    /\ agents = <<>>
    /\ strategy = "majority"
    /\ max_rounds = 0
    /\ spc = "idle"
    /\ round_no = 0
    /\ agentIdx = 0
    /\ votes = <<>>
    /\ sstate = NewState
    /\ history = <<>>
    /\ caller = NewState
    /\ invocations = <<>>
    /\ evals = <<>>
    /\ view = <<>>

\* max_workers: int = 3
DefaultWorkers == 3

\* The queue manager right after construction, never started.
QueueIdle ==
    /\ tasks = <<>>
    /\ task_queue = <<>>
    /\ running = FALSE
    /\ max_workers = DefaultWorkers
    /\ workerThread = "dead"
    /\ workerTask = 0
    /\ executorShutdown = FALSE
    /\ workItems = <<>>
    /\ poolThreads = {}
    /\ lifecycle = "ready"
    /\ qCall = [op |-> "init", id |-> 0, result |-> None]
    /\ processed = <<>>

\* The router when no route call is being examined.
RouterIdle ==
    /\ routeMessages = <<>>
    /\ stateMessages = <<>>
    /\ apiKey = FALSE
    /\ rpc = "idle"
    /\ requests = <<>>
    /\ response = <<>>

\* Neither the queue manager nor the router is in use.
ServiceIdle == QueueIdle /\ RouterIdle

\* The consensus part when no evaluate call is being examined.
ConsensusIdle ==
    /\ cStrategy = "majority"
    /\ cVotes = <<>>
    /\ cResult = <<>>

\* ----------------------------------------------------------- construction
\* max_retries or settings.MAX_RETRIES : None and 0 are both falsy.
OrDefault(arg) ==
    IF arg = <<>> \/ arg = <<0>> THEN MAX_RETRIES ELSE arg[1]

\* hasCeiling = FALSE is the settings object of core/config.py: Settings
\* declares no MAX_EXECUTION_TIME and ignores extra input, so reading the
\* attribute raises AttributeError.  hasCeiling = TRUE is an engine module
\* whose settings object has been given the field (value ExecTimeCeiling);
\* only there can the code after the time check run.
Init ==
    /\ maxRetriesArg \in RetryArgs
    /\ max_retries = OrDefault(maxRetriesArg)
    /\ hasCeiling \in BOOLEAN
    /\ nodes = {}
    /\ edges = <<>>
    /\ start = None
    /\ call = [op |-> "init", args |-> <<>>, raised |-> "none"]
    /\ pc = "idle"
    /\ current = None
    /\ visited = {}
    /\ retries = 0
    /\ step = 0
    /\ errors = <<>>
    /\ elapsed = 0
    /\ attempts = [n \in Names |-> 0]
    /\ completed = <<>>
    /\ budget = DefaultBudget
    /\ budget_used \in {0, DefaultBudget}
    /\ ConsensusIdle
    /\ SwarmIdle
    /\ StateIdle
    /\ ServiceIdle
    /\ part = "graph"

\* ------------------------------------------------------------ registration
\* add_node as it would be with the "if self._start is None" test dropped.
add_node_overwrites_start(name) ==
    /\ pc = "idle"
    /\ IF name \in nodes
       THEN /\ call' = [op |-> "add_node", args |-> <<name>>, raised |-> "ValueError"]
            /\ UNCHANGED <<nodes, edges, start>>
       ELSE /\ nodes' = nodes \cup {name}
            /\ start' = name
            /\ call' = [op |-> "add_node", args |-> <<name>>, raised |-> "none"]
            /\ UNCHANGED edges
    /\ UNCHANGED <<part, stateVars, serviceVars, budgetVars, swarmVars, consensusVars, maxRetriesArg, max_retries, hasCeiling, pc, current,
                   visited, retries, step, errors, elapsed, attempts, completed>>

add_node(name) ==
    /\ pc = "idle"
    /\ IF name \in nodes
       THEN /\ call' = [op |-> "add_node", args |-> <<name>>, raised |-> "ValueError"]
            /\ UNCHANGED graphVars
       ELSE /\ nodes' = nodes \cup {name}
            /\ start' = IF start = None THEN name ELSE start
            /\ call' = [op |-> "add_node", args |-> <<name>>, raised |-> "none"]
            /\ UNCHANGED edges
    /\ UNCHANGED <<part, stateVars, serviceVars, budgetVars, swarmVars, consensusVars, engineVars, pc, runVars>>

\* add_edge as it would be with "and" in place of "or" in the endpoint test.
add_edge_and_for_or(source, target, condition) ==
    /\ pc = "idle"
    /\ Len(edges) < MaxEdges
    /\ IF source \notin nodes /\ target \notin nodes
       THEN /\ call' = [op |-> "add_edge", args |-> <<source, target>>, raised |-> "KeyError"]
            /\ UNCHANGED <<nodes, edges, start>>
       ELSE /\ edges' = Append(edges, [source |-> source, target |-> target,
                                       condition |-> condition])
            /\ call' = [op |-> "add_edge", args |-> <<source, target>>, raised |-> "none"]
            /\ UNCHANGED <<nodes, start>>
    /\ UNCHANGED <<part, stateVars, serviceVars, budgetVars, swarmVars, consensusVars, maxRetriesArg, max_retries, hasCeiling, pc, current,
                   visited, retries, step, errors, elapsed, attempts, completed>>

add_edge(source, target, condition) ==
    /\ pc = "idle"
    /\ Len(edges) < MaxEdges
    /\ IF source \notin nodes \/ target \notin nodes
       THEN /\ call' = [op |-> "add_edge", args |-> <<source, target>>, raised |-> "KeyError"]
            /\ UNCHANGED graphVars
       ELSE /\ edges' = Append(edges, [source |-> source, target |-> target,
                                       condition |-> condition])
            /\ call' = [op |-> "add_edge", args |-> <<source, target>>, raised |-> "none"]
            /\ UNCHANGED <<nodes, start>>
    /\ UNCHANGED <<part, stateVars, serviceVars, budgetVars, swarmVars, consensusVars, engineVars, pc, runVars>>

set_start(name) ==
    /\ pc = "idle"
    /\ IF name \notin nodes
       THEN /\ call' = [op |-> "set_start", args |-> <<name>>, raised |-> "KeyError"]
            /\ UNCHANGED graphVars
       ELSE /\ start' = name
            /\ call' = [op |-> "set_start", args |-> <<name>>, raised |-> "none"]
            /\ UNCHANGED <<nodes, edges>>
    /\ UNCHANGED <<part, stateVars, serviceVars, budgetVars, swarmVars, consensusVars, engineVars, pc, runVars>>

\* ---------------------------------------------------------------- execute
\* edge.condition(state) for the modelled predicate family.
EvalCondition(condition, errs) ==
    IF condition = "has_errors" THEN Len(errs) > 0 ELSE TRUE

\* The for-loop over self._edges: the target of the first edge, from index i
\* on, with edge.source == current and an absent or true condition.
RECURSIVE NextNode(_, _, _, _)
NextNode(es, i, cur, errs) ==
    IF i > Len(es) THEN None
    ELSE IF es[i].source = cur
            /\ (es[i].condition = "None" \/ EvalCondition(es[i].condition, errs))
         THEN es[i].target
         ELSE NextNode(es, i + 1, cur, errs)

\* execute(), entry: no start node -> RuntimeError; otherwise set up the walk.
Execute ==
    /\ pc = "idle"
    /\ IF start = None
       THEN /\ pc' = "raised"
            /\ call' = [op |-> "execute", args |-> <<>>, raised |-> "RuntimeError"]
            /\ UNCHANGED runVars
       ELSE /\ pc' = "loop"
            /\ call' = [op |-> "execute", args |-> <<>>, raised |-> "none"]
            /\ current' = start
            /\ visited' = {}
            /\ elapsed' = 0
            /\ UNCHANGED <<retries, step, errors, attempts, completed>>
    /\ UNCHANGED <<part, stateVars, serviceVars, budgetVars, swarmVars, consensusVars, engineVars, graphVars>>

\* LoopHead as it would be without the cycle guard: a node that was already
\* visited is entered again.
LoopHead_without_cycle_guard ==
    /\ pc = "loop"
    /\ IF current = None
       THEN /\ pc' = "returned"
            /\ UNCHANGED <<visited, retries, errors>>
       ELSE /\ visited' = visited \cup {current}
            /\ retries' = 0
            /\ pc' = "retry"
            /\ UNCHANGED errors
    /\ UNCHANGED <<part, stateVars, serviceVars, budgetVars, swarmVars, consensusVars, engineVars, graphVars, call, current, step, elapsed,
                   attempts, completed>>

\* while current is not None: cycle guard, visited.add, retries = 0;
\* falling out of the loop returns the state.
LoopHead ==
    /\ pc = "loop"
    /\ IF current = None
       THEN /\ pc' = "returned"
            /\ UNCHANGED <<visited, retries, errors>>
       ELSE IF current \in visited
       THEN /\ errors' = add_error(errors, "graph_cycle", current, <<>>)
            /\ pc' = "returned"
            /\ UNCHANGED <<visited, retries>>
       ELSE /\ visited' = visited \cup {current}
            /\ retries' = 0
            /\ pc' = "retry"
            /\ UNCHANGED errors
    /\ UNCHANGED <<part, stateVars, serviceVars, budgetVars, swarmVars, consensusVars, engineVars, graphVars, call, current, step, elapsed,
                   attempts, completed>>

\* RetryHead as it would be if next_step were called once per node, on the
\* first attempt only.
RetryHead_counts_first_attempt_only ==
    /\ pc = "retry"
    /\ IF retries <= max_retries
       THEN /\ step' = IF retries = 0 THEN next_step(step) ELSE step
            /\ attempts' = [attempts EXCEPT ![current] = @ + 1]
            /\ pc' = "running"
       ELSE /\ pc' = "after_node"
            /\ UNCHANGED <<step, attempts>>
    /\ UNCHANGED <<part, stateVars, serviceVars, budgetVars, swarmVars, consensusVars, engineVars, graphVars, call, current, visited, retries,
                   errors, elapsed, completed>>

\* RetryHead as it would be if the node call were started without being
\* awaited, so that the loop could start the next attempt at once.
RetryHead_not_awaited ==
    /\ pc \in {"retry", "running"}
    /\ IF retries <= max_retries
       THEN /\ step' = next_step(step)
            /\ attempts' = [attempts EXCEPT ![current] = @ + 1]
            /\ pc' = "running"
       ELSE /\ pc' = "after_node"
            /\ UNCHANGED <<step, attempts>>
    /\ UNCHANGED <<part, stateVars, serviceVars, budgetVars, swarmVars, consensusVars, engineVars, graphVars, call, current, visited, retries,
                   errors, elapsed, completed>>

\* while retries <= self._max_retries: state.next_step(); await node.execute
RetryHead ==
    /\ pc = "retry"
    /\ IF retries <= max_retries
       THEN /\ step' = next_step(step)
            /\ attempts' = [attempts EXCEPT ![current] = @ + 1]
            /\ pc' = "running"
       ELSE /\ pc' = "after_node"
            /\ UNCHANGED <<step, attempts>>
    /\ UNCHANGED <<part, stateVars, serviceVars, budgetVars, swarmVars, consensusVars, engineVars, graphVars, call, current, visited, retries,
                   errors, elapsed, completed>>

\* Time that passes while the node is awaited (capped one tick above the
\* ceiling: beyond that the comparison cannot change).
Tick(d) == IF elapsed + d > ExecTimeCeiling + 1 THEN ExecTimeCeiling + 1
           ELSE elapsed + d

\* The awaited node returns: state = <result>; break
NodeReturns ==
    /\ pc = "running"
    /\ \E d \in 0..1 : elapsed' = Tick(d)
    /\ completed' = Append(completed, current)
    /\ pc' = "after_node"
    /\ UNCHANGED <<part, stateVars, serviceVars, budgetVars, swarmVars, consensusVars, engineVars, graphVars, call, current, visited, retries,
                   step, errors, attempts>>

\* The awaited node raises: record node_execution, count the retry, re-raise
\* when retries are exhausted.
NodeRaises ==
    /\ pc = "running"
    /\ \E d \in 0..1 : elapsed' = Tick(d)
    /\ errors' = add_error(errors, "node_execution", "NodeError", <<current, retries>>)
    /\ retries' = retries + 1
    /\ IF retries + 1 > max_retries
       THEN /\ pc' = "raised"
            /\ call' = [call EXCEPT !.raised = "NodeError"]
       ELSE /\ pc' = "retry"
            /\ UNCHANGED call
    /\ UNCHANGED <<part, stateVars, serviceVars, budgetVars, swarmVars, consensusVars, engineVars, graphVars, current, visited, step, attempts,
                   completed>>

\* After the retry loop: the elapsed-time check against
\* settings.MAX_EXECUTION_TIME (an attribute lookup that fails when the
\* settings object has no such field), then the choice of the next node.
AfterNode ==
    /\ pc = "after_node"
    /\ IF ~hasCeiling
       THEN /\ pc' = "raised"
            /\ call' = [call EXCEPT !.raised = "AttributeError"]
            /\ UNCHANGED <<current, errors>>
       ELSE IF elapsed > ExecTimeCeiling
       THEN /\ errors' = add_error(errors, "graph_timeout", "Max execution time exceeded.", <<>>)
            /\ pc' = "returned"
            /\ UNCHANGED <<current, call>>
       ELSE /\ current' = NextNode(edges, 1, current, errors)
            /\ pc' = "loop"
            /\ UNCHANGED <<errors, call>>
    /\ UNCHANGED <<part, stateVars, serviceVars, budgetVars, swarmVars, consensusVars, engineVars, graphVars, visited, retries, step, elapsed,
                   attempts, completed>>

Next ==
    \/ \E n \in Names : add_node(n)
    \/ \E s \in Names, t \in Names, c \in Conditions : add_edge(s, t, c)
    \/ \E n \in Names : set_start(n)
    \/ Execute
    \/ LoopHead
    \/ RetryHead
    \/ NodeReturns
    \/ NodeRaises
    \/ AfterNode

Spec == Init /\ [][Next]_vars

TypeOK ==
    /\ maxRetriesArg \in RetryArgs
    /\ hasCeiling \in BOOLEAN
    /\ nodes \subseteq Names
    /\ start \in Names \cup {None}
    /\ current \in Names \cup {None}
    /\ visited \subseteq Names
    /\ pc \in {"idle", "loop", "retry", "running", "after_node", "returned", "raised"}
    /\ elapsed \in 0..(ExecTimeCeiling + 1)

\* ------------------------------------------------- vocabulary of the claims
Terminated == pc \in {"returned", "raised"} /\ call.op = "execute"

CountType(errs, t) == Cardinality({i \in DOMAIN errs : errs[i].type = t})

\* node_execution records naming node n
NodeErrorCount(n) ==
    Cardinality({i \in DOMAIN errors :
                    /\ errors[i].type = "node_execution"
                    /\ errors[i].details[1] = n})

\* how often n's result was adopted
Adopted(n) == Cardinality({i \in DOMAIN completed : completed[i] = n})

\* attempts of n that raised
Failures(n) ==
    attempts[n] - Adopted(n) - (IF pc = "running" /\ current = n THEN 1 ELSE 0)

NoNodeFailed == \A n \in Names : Failures(n) = 0

CeilingExceeded == elapsed > ExecTimeCeiling

\* nodes reachable from the set S along edges, conditions ignored
Successors(S) == {edges[i].target : i \in {j \in DOMAIN edges : edges[j].source \in S}}

RECURSIVE Closure(_, _)
Closure(S, k) == IF k = 0 THEN S ELSE Closure(S \cup Successors(S), k - 1)

Reachable == Closure({start}, Cardinality(Names))

NoCycleReachable ==
    \A n \in Reachable :
        n \notin Closure(Successors({n}), Cardinality(Names))

\* index set of the edges leaving n that are satisfied on a state with errors errs
Satisfied(n, errs) ==
    {i \in DOMAIN edges :
        /\ edges[i].source = n
        /\ \/ edges[i].condition = "None"
           \/ edges[i].condition = "has_errors" /\ errs # <<>>}

FirstSatisfiedTarget(n, errs) ==
    IF Satisfied(n, errs) = {} THEN None
    ELSE edges[CHOOSE i \in Satisfied(n, errs) :
                   \A j \in Satisfied(n, errs) : i <= j].target

AllUnconditional == \A i \in DOMAIN edges : edges[i].condition = "None"

\* the node reached from n after k transitions when every condition is true
RECURSIVE Walk(_, _)
Walk(n, k) ==
    IF k = 0 \/ n = None THEN n ELSE Walk(FirstSatisfiedTarget(n, <<>>), k - 1)

\* the walk from start comes back to start after exactly k transitions
CycleThroughStart(k) ==
    /\ start # None
    /\ AllUnconditional
    /\ Walk(start, k) = start
    /\ \A m \in 1..(k - 1) : Walk(start, m) # start

\* ------------------------------------------------------------------ claims

\* C1: on a graph with no cycle reachable from the start node, with no node
\* attempt failing and the time ceiling not exceeded, execute ends by
\* returning, having executed at most as many nodes as are reachable from
\* start, and the returned state's step equals the number of nodes executed.
C1_AcyclicRunReturnsStepCount ==
    (Terminated /\ start # None /\ NoCycleReachable /\ NoNodeFailed
        /\ ~CeilingExceeded)
    => /\ pc = "returned"
       /\ Len(completed) <= Cardinality(Reachable)
       /\ step = Len(completed)

\* C2: when the transitions from start form a cycle of length k with every
\* condition true (no node failure, no timeout), execute ends within k+1
\* steps by returning, with exactly one graph_cycle error in the state.
C2_CycleReturnsOneCycleError ==
    \A k \in 1..Cardinality(Names) :
        (Terminated /\ CycleThroughStart(k) /\ NoNodeFailed /\ ~CeilingExceeded)
        => /\ pc = "returned"
           /\ step <= k + 1
           /\ CountType(errors, "graph_cycle") = 1

\* C3: once the current node's result has been adopted after r failed
\* attempts, the state holds exactly r node_execution records for it and
\* exactly one adopted result, and execute goes on without raising; and the
\* engine gives up on a node only after more failures than the configured
\* max_retries.
C3_RetryThenSuccessContinues ==
    /\ \A n \in Names :
        (call.op = "execute" /\ current = n /\ Adopted(n) > 0)
        => /\ NodeErrorCount(n) = Failures(n)
           /\ Adopted(n) = 1
           /\ pc # "raised"
    /\ (pc = "raised" /\ call.raised = "NodeError" /\ maxRetriesArg # <<>>)
        => Failures(current) > maxRetriesArg[1]

\* C4: for every configured max_retries and every r > max_retries, a node
\* whose first r attempts raise makes execute re-raise: as soon as a node has
\* failed more often than max_retries, execute has raised the node's failure
\* (so neither that node nor a later one is invoked again).
C4_ExhaustedRetriesReraise ==
    \A n \in Names :
        (call.op = "execute" /\ maxRetriesArg # <<>> /\ maxRetriesArg[1] >= 0
            /\ Failures(n) > maxRetriesArg[1])
        => pc = "raised" /\ call.raised = "NodeError"

\* C5: for every max_retries n >= 0 given to the constructor, when execute
\* re-raises a node's failure that node has been invoked exactly n + 1 times.
C5_AlwaysFailingInvokedNPlus1 ==
    (pc = "raised" /\ call.raised = "NodeError" /\ maxRetriesArg # <<>>
        /\ maxRetriesArg[1] >= 0)
    => attempts[current] = maxRetriesArg[1] + 1

\* C6: on an engine with at least one registered node, execute raises only
\* when some node has exhausted its retries; otherwise it returns a state.
C6_RaisesOnlyOnExhaustedRetries ==
    (Terminated /\ nodes # {} /\ pc = "raised")
    => /\ call.raised = "NodeError"
       /\ retries > max_retries

\* C7: after a node completes (and the ceiling is not exceeded) the next
\* current node is the target of the first edge, in registration order,
\* that leaves the current node and whose condition is absent or true on the
\* state; with no such edge current becomes None and the traversal ends.
C7_FirstSatisfiedEdgeWins ==
    [][/\ (pc = "after_node" /\ ~CeilingExceeded)
            => /\ pc' = "loop"
               /\ current' = FirstSatisfiedTarget(current, errors)
       /\ (pc = "loop" /\ current = None)
            => pc' = "returned" /\ errors' = errors]_vars

\* C8: the elapsed-time ceiling is checked after each completed node, before
\* the next node is chosen, and not while a node runs: elapsed time beyond
\* the ceiling ends execute only at that check, which appends exactly one
\* graph_timeout error and returns the state without raising, and a check
\* that finds the ceiling respected appends nothing.
C8_TimeoutCheckedAfterNode ==
    [][/\ (pc = "after_node" /\ CeilingExceeded)
            => /\ pc' = "returned"
               /\ errors' = Append(errors,
                     [type |-> "graph_timeout",
                      message |-> "Max execution time exceeded.",
                      details |-> <<>>])
       /\ (pc = "after_node" /\ ~CeilingExceeded)
            => pc' # "raised" /\ errors' = errors
       /\ CountType(errors', "graph_timeout") > CountType(errors, "graph_timeout")
            => pc = "after_node"]_vars

\* every edge joins registered nodes; start is None exactly when no node is
\* registered, and otherwise names a registered node
GraphWellFormed ==
    /\ \A i \in DOMAIN edges : edges[i].source \in nodes /\ edges[i].target \in nodes
    /\ (start = None) <=> (nodes = {})
    /\ start # None => start \in nodes

\* C9: across every add_node, add_edge and set_start call, successful or
\* not, every registered edge has both endpoints registered and start is
\* unset exactly when no node is registered and otherwise a registered node;
\* an add_edge with an unregistered endpoint and a set_start of an unknown
\* name raise KeyError and leave nodes, edges and start unchanged.
C9_GraphStaysWellFormed ==
    [][/\ GraphWellFormed
       /\ GraphWellFormed'
       /\ (call'.op = "add_edge"
              /\ (call'.args[1] \notin nodes \/ call'.args[2] \notin nodes))
            => call'.raised = "KeyError" /\ UNCHANGED <<nodes, edges, start>>
       /\ (call'.op = "set_start" /\ call'.args[1] \notin nodes)
            => call'.raised = "KeyError" /\ UNCHANGED <<nodes, edges, start>>]_vars

\* C9 witness: a rejected add_edge (one endpoint registered, the other not)
\* on an engine that already holds an edge.
C9_Witness ==
    /\ call.op = "add_edge"
    /\ call.raised = "KeyError"
    /\ edges # <<>>
    /\ \E x \in {call.args[1], call.args[2]} : x \in nodes
    /\ \E x \in {call.args[1], call.args[2]} : x \notin nodes

\* C10: add_node of a registered name raises ValueError and leaves nodes,
\* edges and start unchanged; add_node of a new name makes it the start only
\* when it is the first node ever added, and start changes in no other way
\* than by that first add_node or by set_start.
C10_DuplicateRejectedStartIsFirst ==
    [][/\ (call'.op = "add_node" /\ call'.args[1] \in nodes)
            => call'.raised = "ValueError" /\ UNCHANGED <<nodes, edges, start>>
       /\ (call'.op = "add_node" /\ call'.args[1] \notin nodes)
            => /\ call'.raised = "none"
               /\ nodes' = nodes \cup {call'.args[1]}
               /\ start' = IF nodes = {} THEN call'.args[1] ELSE start
       /\ start' # start
            => \/ call'.op = "add_node" /\ nodes = {}
               \/ call'.op = "set_start"]_vars

\* C10 witness: a second node was added after the first, then re-adding the
\* first node was rejected; start is a registered node.
C10_Witness ==
    /\ call.op = "add_node"
    /\ call.raised = "ValueError"
    /\ Cardinality(nodes) >= 2
    /\ edges # <<>>
    /\ start \in nodes

\* ------------------------------------------------ claims C23 .. (graph)
\* attempts made so far in this execute, over all nodes
RECURSIVE SumAttempts(_)
SumAttempts(S) ==
    IF S = {} THEN 0
    ELSE LET n == CHOOSE x \in S : TRUE
         IN  attempts[n] + SumAttempts(S \ {n})

\* C23: during execute, step changes only by one increment at the start of
\* a node attempt (first attempt or retry), made before the node runs; so
\* at every point step is the number of attempts started, and once execute
\* has returned or raised it is the number of attempts that returned plus
\* the number that failed; cycle and timeout aborts add nothing.
C23_StepCountsAttempts ==
    [][/\ step' # step => (pc = "retry" /\ pc' = "running" /\ step' = step + 1)
       /\ (pc' = "running" /\ pc # "running") => step' = step + 1
       /\ step' = SumAttempts(Names)'
       /\ pc' \in {"returned", "raised"}
            => step' = Len(completed') + CountType(errors', "node_execution")]_vars

\* C23 witness: execute returned on a cycle abort after two nodes completed,
\* one of them on its second attempt: three attempts, step 3, and the
\* graph_cycle record added nothing to step.
C23_Witness ==
    /\ pc = "returned"
    /\ CountType(errors, "graph_cycle") = 1
    /\ CountType(errors, "node_execution") = 1
    /\ Len(completed) = 2
    /\ step = 3



\* ==================================================================
\* Part 2: ConsensusEngine.evaluate (core/swarm/consensus.py), a pure
\* function, applied once to a strategy and a vote list drawn in the
\* initial state.
\* ==================================================================

\* Longest vote list drawn.
MaxVotes == 3

\* ConsensusStrategy values
Strategies == {"majority", "unanimity", "manager"}

\* Vote tokens drawn: the three counted ones, an uncounted one and a counted
\* one in another case.
Tokens == {"approve", "pass", "success", "reject", "APPROVE"}

VoteLists == UNION {[1..n -> Tokens] : n \in 0..MaxVotes}

\* list.count(x)
Count(vs, x) == Cardinality({i \in DOMAIN vs : vs[i] = x})

\* Positive as it would be if "pass" were not a counted vote.
Positive_without_pass(vs) ==
    Count(vs, "approve") + Count(vs, "success")

\* positive = votes.count("approve") + votes.count("pass") + votes.count("success")
Positive(vs) ==
    Count(vs, "approve") + Count(vs, "pass") + Count(vs, "success")

\* What a call produces: a boolean, or an exception.
Returns(b) == [raised |-> "none", value |-> b]
Raises(e) == [raised |-> e, value |-> FALSE]

\* (positive / total) > 0.5 : true division, which raises on total = 0.
RatioAboveHalf(positive, total) ==
    IF total = 0 THEN Raises("ZeroDivisionError")
    ELSE Returns(2 * positive > total)

\* evaluate with ">=" in place of ">" in the majority test.
evaluate_half_suffices(strat, vs) ==
    IF vs = <<>> THEN Returns(FALSE)
    ELSE IF strat = "majority"
         THEN Returns(2 * Positive(vs) >= Len(vs))
         ELSE IF strat = "unanimity"
              THEN Returns(Positive(vs) = Len(vs))
              ELSE RatioAboveHalf(Positive(vs), Len(vs))

\* evaluate with unanimity satisfied by all but one vote.
evaluate_unanimity_off_by_one(strat, vs) ==
    IF vs = <<>> THEN Returns(FALSE)
    ELSE IF strat = "majority"
         THEN RatioAboveHalf(Positive(vs), Len(vs))
         ELSE IF strat = "unanimity"
              THEN Returns(Positive(vs) >= Len(vs) - 1)
              ELSE RatioAboveHalf(Positive(vs), Len(vs))

\* evaluate without the "if not votes: return False" guard.
evaluate_no_empty_guard(strat, vs) ==
    IF strat = "majority"
    THEN RatioAboveHalf(Positive(vs), Len(vs))
    ELSE IF strat = "unanimity"
         THEN Returns(Positive(vs) = Len(vs))
         ELSE RatioAboveHalf(Positive(vs), Len(vs))

\* evaluate with the first voter deciding under MANAGER_DECIDES.
evaluate_first_voter_decides(strat, vs) ==
    IF vs = <<>> THEN Returns(FALSE)
    ELSE IF strat = "majority"
         THEN RatioAboveHalf(Positive(vs), Len(vs))
         ELSE IF strat = "unanimity"
              THEN Returns(Positive(vs) = Len(vs))
              ELSE Returns(Positive(<<vs[1]>>) = 1)

\* ConsensusEngine.evaluate
evaluate(strat, vs) ==
    IF vs = <<>> THEN Returns(FALSE)
    ELSE IF strat = "majority"
         THEN RatioAboveHalf(Positive(vs), Len(vs))
         ELSE IF strat = "unanimity"
              THEN Returns(Positive(vs) = Len(vs))
              ELSE RatioAboveHalf(Positive(vs), Len(vs))

GraphIdle ==
    /\ maxRetriesArg = <<>>
    /\ max_retries = OrDefault(<<>>)
    /\ hasCeiling = FALSE
    /\ nodes = {}
    /\ edges = <<>>
    /\ start = None
    /\ call = [op |-> "init", args |-> <<>>, raised |-> "none"]
    /\ pc = "idle"
    /\ current = None
    /\ visited = {}
    /\ retries = 0
    /\ step = 0
    /\ errors = <<>>
    /\ elapsed = 0
    /\ attempts = [n \in Names |-> 0]
    /\ completed = <<>>
    /\ budget = DefaultBudget
    /\ budget_used = 0

graphAllVars == <<engineVars, graphVars, call, pc, runVars, budgetVars>>

InitConsensus ==
    /\ GraphIdle
    /\ SwarmIdle
    /\ cStrategy \in Strategies
    /\ cVotes \in VoteLists
    /\ cResult = <<>>
    /\ StateIdle
    /\ ServiceIdle
    /\ part = "consensus"

\* The call evaluate(cStrategy, cVotes).
Evaluate ==
    /\ cResult = <<>>
    /\ cResult' = <<evaluate(cStrategy, cVotes)>>
    /\ UNCHANGED <<cStrategy, cVotes, graphAllVars, swarmVars, stateVars, serviceVars, part>>

NextConsensus == Evaluate

SpecConsensus == InitConsensus /\ [][NextConsensus]_vars

\* the acceptance vocabulary
Vocabulary == {"approve", "pass", "success"}

Accepting(vs) == {i \in DOMAIN vs : vs[i] \in Vocabulary}

Evaluated == cResult # <<>>

\* C13: evaluate(MAJORITY_VOTE, votes) returns true exactly when votes is
\* non-empty and strictly more than half of the votes are one of approve,
\* pass, success; an even split returns false.
C13_MajorityIsStrict ==
    (Evaluated /\ cStrategy = "majority")
    => /\ cResult[1].raised = "none"
       /\ cResult[1].value
            <=> (cVotes # <<>>
                 /\ 2 * Cardinality(Accepting(cVotes)) > Len(cVotes))

\* C13 witness: an even split (one counted vote, one uncounted) was
\* evaluated under MAJORITY_VOTE and returned false.
C13_Witness ==
    /\ Evaluated
    /\ cStrategy = "majority"
    /\ Len(cVotes) = 2
    /\ Cardinality(Accepting(cVotes)) = 1
    /\ cResult[1] = Returns(FALSE)

\* C14: the spec's worked examples: MAJORITY_VOTE on [approve, pass] is
\* false, UNANIMITY on [approve, pass] is false, MAJORITY_VOTE on
\* [approve, approve, pass] is true, UNANIMITY on [approve, approve] is true.
C14_WorkedExamples ==
    Evaluated =>
       /\ (cStrategy = "majority" /\ cVotes = <<"approve", "pass">>)
            => cResult[1] = Returns(FALSE)
       /\ (cStrategy = "unanimity" /\ cVotes = <<"approve", "pass">>)
            => cResult[1] = Returns(FALSE)
       /\ (cStrategy = "majority" /\ cVotes = <<"approve", "approve", "pass">>)
            => cResult[1] = Returns(TRUE)
       /\ (cStrategy = "unanimity" /\ cVotes = <<"approve", "approve">>)
            => cResult[1] = Returns(TRUE)

\* C15: evaluate(UNANIMITY, votes) returns true exactly when votes is
\* non-empty and every vote is in the acceptance vocabulary.
C15_UnanimityNeedsAll ==
    (Evaluated /\ cStrategy = "unanimity")
    => /\ cResult[1].raised = "none"
       /\ cResult[1].value
            <=> (cVotes # <<>> /\ \A i \in DOMAIN cVotes : cVotes[i] \in Vocabulary)

\* C15 witness: a list with all votes but one accepting was evaluated under
\* UNANIMITY and returned false.
C15_Witness ==
    /\ Evaluated
    /\ cStrategy = "unanimity"
    /\ Len(cVotes) >= 2
    /\ Cardinality(Accepting(cVotes)) = Len(cVotes) - 1
    /\ cResult[1] = Returns(FALSE)

\* C16: for each strategy evaluate(strategy, []) returns false; it does not
\* fail on the division by the number of votes.
C16_EmptyVotesFalse ==
    (Evaluated /\ cVotes = <<>>) => cResult[1] = Returns(FALSE)

\* C16 witness: the empty list was evaluated under a strategy that divides.
C16_Witness ==
    /\ Evaluated
    /\ cVotes = <<>>
    /\ cStrategy = "manager"

\* C17: for every vote list, MANAGER_DECIDES gives the result MAJORITY_VOTE
\* gives on the same list: the outcome depends on how many votes accept, not
\* on which voter cast them.
C17_ManagerIsMajority ==
    (Evaluated /\ cStrategy = "manager")
    => /\ cResult[1] = evaluate("majority", cVotes)
       /\ cResult[1].value
            <=> (cVotes # <<>>
                 /\ 2 * Cardinality(Accepting(cVotes)) > Len(cVotes))

\* C17 witness: under MANAGER_DECIDES the first voter rejected and the
\* list was accepted all the same.
C17_Witness ==
    /\ Evaluated
    /\ cStrategy = "manager"
    /\ Len(cVotes) = 3
    /\ cVotes[1] \notin Vocabulary
    /\ cResult[1] = Returns(TRUE)


\* ==================================================================
\* Part 3: SwarmCoordinator.orchestrate (core/swarm/coordinator.py) with
\* SwarmConversation (core/swarm/conversation.py).
\*
\* An agent is opaque: an invocation raises, or returns the state it was
\* given after appending one message (BaseAgent.execute), nothing, or an
\* error record and no message (TesterAgent.execute).  Message contents are strings, held as tuples of
\* characters so that lower() and the substring test are computed.
\* ==================================================================

\* Most agents in a configuration.
MaxAgents == 3
\* Largest max_rounds configured, besides the default.
MaxRoundsArg == 2
\* Settings.MAX_SWARM_ROUNDS, the default of SwarmConfig.max_rounds
MAX_SWARM_ROUNDS == 5

\* The agents a configuration lists are the first n of these.
Roster == <<"Architect", "Developer", "Tester", "Debugger", "Supervisor">>

\* Contents an agent may append.
Contents == {
    <<"F", "I", "X", "E", "D">>,
    <<"T", "e", "s", "t", "s", " ", "p", "a", "s", "s", "e", "d">>,
    <<"S", "y", "n", "t", "a", "x", " ", "O", "K">>,
    <<"u", "n", "s", "u", "c", "c", "e", "s", "s", "f", "u", "l">>,
    <<"f", "a", "i", "l", "e", "d">>,
    <<>> }

\* str.lower(), per character
UpperCase == <<"A", "B", "C", "D", "E", "F", "G", "H", "I", "J", "K", "L", "M", "N", "O", "P", "Q", "R", "S", "T", "U", "V", "W", "X", "Y", "Z">>
LowerCase == <<"a", "b", "c", "d", "e", "f", "g", "h", "i", "j", "k", "l", "m", "n", "o", "p", "q", "r", "s", "t", "u", "v", "w", "x", "y", "z">>

LowerChar(c) ==
    IF \E i \in DOMAIN UpperCase : UpperCase[i] = c
    THEN LowerCase[CHOOSE i \in DOMAIN UpperCase : UpperCase[i] = c]
    ELSE c

lower(str) == [i \in DOMAIN str |-> LowerChar(str[i])]

\* k in str
Contains(k, str) ==
    \E i \in 0..(Len(str) - Len(k)) : SubSeq(str, i + 1, i + Len(k)) = k

\* ["tests passed", "syntax ok", "fixed", "success"]
Keywords == {
    <<"t", "e", "s", "t", "s", " ", "p", "a", "s", "s", "e", "d">>,
    <<"s", "y", "n", "t", "a", "x", " ", "o", "k">>,
    <<"f", "i", "x", "e", "d">>,
    <<"s", "u", "c", "c", "e", "s", "s">> }

\* state.messages[-1] if state.messages else {} ; .get("content", "")
LastContent(messages) ==
    IF messages = <<>> THEN <<>> ELSE messages[Len(messages)].content

\* the vote appended for a scanned content
VoteFor(content) ==
    IF \E k \in Keywords : Contains(k, lower(content)) THEN "success" ELSE "pass"

\* NeuralState.add_message
add_message(st, role, content, name) ==
    [st EXCEPT !.messages = Append(@, [role |-> role, content |-> content,
                                       name |-> name])]

\* SwarmConversation.add
conversation_add(hist, role, content, agent_name, round) ==
    Append(hist, [role |-> role, content |-> content,
                  agent_name |-> agent_name, round |-> round])

\* A state that has been through an earlier run: it holds a message and an
\* error record, its step is past 0 and its budget is used up.
UsedState ==
    [add_message(NewState, "user", <<"F", "I", "X", "E", "D">>, "caller")
        EXCEPT !.errors = add_error(@, "node_execution", "NodeError", <<>>),
               !.step = next_step(@),
               !.budget_used = DefaultBudget]

\* States a caller hands to orchestrate: fresh, or used before.
CallerStates == {NewState, UsedState}

InitSwarm ==
    /\ GraphIdle
    /\ ConsensusIdle
    /\ \E n \in 0..MaxAgents : agents = SubSeq(Roster, 1, n)
    /\ strategy \in Strategies
    /\ max_rounds \in (0..MaxRoundsArg) \cup {MAX_SWARM_ROUNDS}
    /\ spc = "idle"
    /\ round_no = 0
    /\ agentIdx = 0
    /\ votes = <<>>
    /\ caller \in CallerStates
    /\ sstate = caller
    /\ history = <<>>
    /\ invocations = <<>>
    /\ evals = <<>>
    /\ view = <<>>
    /\ StateIdle
    /\ ServiceIdle
    /\ part = "swarm"

\* orchestrate(state), entry
Orchestrate ==
    /\ spc = "idle"
    /\ spc' = "round_head"
    /\ UNCHANGED <<swarmConfig, round_no, agentIdx, votes, sstate, history,
                   caller, invocations, evals, graphAllVars, consensusVars, stateVars, serviceVars, part, view>>

\* RoundHead as it would be if running out of rounds were recorded in the
\* state's error log.
RoundHead_annotates_exhaustion ==
    /\ spc = "round_head"
    /\ IF round_no < max_rounds
       THEN /\ round_no' = round_no + 1
            /\ votes' = <<>>
            /\ agentIdx' = 0
            /\ spc' = "agent_head"
            /\ UNCHANGED sstate
       ELSE /\ spc' = "returned"
            /\ sstate' = [sstate EXCEPT !.errors =
                   add_error(@, "swarm_no_consensus", "Max rounds reached", <<>>)]
            /\ UNCHANGED <<round_no, votes, agentIdx>>
    /\ UNCHANGED <<swarmConfig, history, caller, invocations, evals,
                   graphAllVars, consensusVars, stateVars, serviceVars, part, view>>

\* for round_no in range(1, max_rounds + 1): votes = []
\* ... or the loop is exhausted and the state is returned.
RoundHead ==
    /\ spc = "round_head"
    /\ IF round_no < max_rounds
       THEN /\ round_no' = round_no + 1
            /\ votes' = <<>>
            /\ agentIdx' = 0
            /\ spc' = "agent_head"
       ELSE /\ spc' = "returned"
            /\ UNCHANGED <<round_no, votes, agentIdx>>
    /\ UNCHANGED <<swarmConfig, sstate, history, caller, invocations, evals,
                   graphAllVars, consensusVars, stateVars, serviceVars, part, view>>

\* AgentHead as it would be if the consensus check stood inside the agent
\* loop and ended the round after the first agent.
AgentHead_evaluates_after_first_agent ==
    /\ spc = "agent_head"
    /\ IF agentIdx < Len(agents) /\ agentIdx < 1
       THEN /\ agentIdx' = agentIdx + 1
            /\ invocations' = Append(invocations,
                   [round |-> round_no, index |-> agentIdx + 1,
                    name |-> agents[agentIdx + 1], received |-> sstate,
                    outcome |-> "running", result |-> sstate,
                    appended |-> <<>>, vote |-> "none"])
            /\ spc' = "running"
       ELSE /\ spc' = "consensus"
            /\ UNCHANGED <<agentIdx, invocations>>
    /\ UNCHANGED <<swarmConfig, round_no, votes, sstate, history, caller,
                   evals, graphAllVars, consensusVars, stateVars, serviceVars, part, view>>

\* AgentHead as it would be if an exhausted budget ended the run before the
\* next agent.
AgentHead_stops_on_budget ==
    /\ spc = "agent_head"
    /\ IF sstate.budget_used >= sstate.budget
       THEN /\ spc' = "returned"
            /\ UNCHANGED <<agentIdx, invocations>>
       ELSE IF agentIdx < Len(agents)
       THEN /\ agentIdx' = agentIdx + 1
            /\ invocations' = Append(invocations,
                   [round |-> round_no, index |-> agentIdx + 1,
                    name |-> agents[agentIdx + 1], received |-> sstate,
                    outcome |-> "running", result |-> sstate,
                    appended |-> <<>>, vote |-> "none"])
            /\ spc' = "running"
       ELSE /\ spc' = "consensus"
            /\ UNCHANGED <<agentIdx, invocations>>
    /\ UNCHANGED <<swarmConfig, round_no, votes, sstate, history, caller,
                   evals, graphAllVars, consensusVars, stateVars, serviceVars, part, view>>

\* for agent in config.agents: state = await agent.execute(state)  (the call)
AgentHead ==
    /\ spc = "agent_head"
    /\ IF agentIdx < Len(agents)
       THEN /\ agentIdx' = agentIdx + 1
            /\ invocations' = Append(invocations,
                   [round |-> round_no, index |-> agentIdx + 1,
                    name |-> agents[agentIdx + 1], received |-> sstate,
                    outcome |-> "running", result |-> sstate,
                    appended |-> <<>>, vote |-> "none"])
            /\ spc' = "running"
       ELSE /\ spc' = "consensus"
            /\ UNCHANGED <<agentIdx, invocations>>
    /\ UNCHANGED <<swarmConfig, round_no, votes, sstate, history, caller,
                   evals, graphAllVars, consensusVars, stateVars, serviceVars, part, view>>

\* What the running agent did to the state it was given: msg is <<>> or
\* <<content>>, err tells whether it appended an error record.
AgentResult(st, name, msg, err) ==
    LET withMsg == IF msg = <<>> THEN st
                   ELSE add_message(st, "assistant", msg[1], name)
    IN  IF err
        THEN [withMsg EXCEPT !.errors =
                 add_error(@, "syntax_error", "Syntax check failed", <<>>)]
        ELSE withMsg

\* AgentReturns as it would be if the awaited result were not assigned.
AgentReturns_result_dropped(msg, err) ==
    /\ spc = "running"
    /\ LET name == agents[agentIdx]
           result == AgentResult(sstate, name, msg, err)
           content == LastContent(sstate.messages)
       IN  /\ sstate' = sstate
           /\ history' = conversation_add(history, "assistant", content, name, round_no)
           /\ votes' = Append(votes, VoteFor(content))
           /\ invocations' = [invocations EXCEPT ![Len(invocations)] =
                  [@ EXCEPT !.outcome = "returned", !.result = result,
                            !.appended = msg, !.vote = VoteFor(content)]]
    /\ spc' = "agent_head"
    /\ UNCHANGED <<swarmConfig, round_no, agentIdx, caller, evals,
                   graphAllVars, consensusVars, stateVars, serviceVars, part, view>>

\* The awaited agent returns: adopt its state, read the last message, log
\* it in the conversation, derive the vote.
AgentReturns(msg, err) ==
    /\ spc = "running"
    /\ LET name == agents[agentIdx]
           result == AgentResult(sstate, name, msg, err)
           content == LastContent(result.messages)
       IN  /\ sstate' = result
           /\ history' = conversation_add(history, "assistant", content, name, round_no)
           /\ votes' = Append(votes, VoteFor(content))
           /\ invocations' = [invocations EXCEPT ![Len(invocations)] =
                  [@ EXCEPT !.outcome = "returned", !.result = result,
                            !.appended = msg, !.vote = VoteFor(content)]]
    /\ spc' = "agent_head"
    /\ UNCHANGED <<swarmConfig, round_no, agentIdx, caller, evals,
                   graphAllVars, consensusVars, stateVars, serviceVars, part, view>>

\* AgentRaises as it would be if the coordinator caught the failure and
\* went on with the next agent.
AgentRaises_swallowed ==
    /\ spc = "running"
    /\ invocations' = [invocations EXCEPT ![Len(invocations)] =
           [@ EXCEPT !.outcome = "raised"]]
    /\ spc' = "agent_head"
    /\ UNCHANGED <<swarmConfig, round_no, agentIdx, votes, sstate, history,
                   caller, evals, graphAllVars, consensusVars, stateVars, serviceVars, part, view>>

\* The awaited agent raises: nothing catches it, orchestrate ends.
AgentRaises ==
    /\ spc = "running"
    /\ invocations' = [invocations EXCEPT ![Len(invocations)] =
           [@ EXCEPT !.outcome = "raised"]]
    /\ spc' = "raised"
    /\ UNCHANGED <<swarmConfig, round_no, agentIdx, votes, sstate, history,
                   caller, evals, graphAllVars, consensusVars, stateVars, serviceVars, part, view>>

\* ConsensusCheck as it would be if a reached consensus did not end the loop.
ConsensusCheck_no_early_exit ==
    /\ spc = "consensus"
    /\ LET res == evaluate(strategy, votes)
       IN  /\ evals' = Append(evals, [round |-> round_no, votes |-> votes,
                                      result |-> res])
           /\ spc' = IF res.raised # "none" THEN "raised" ELSE "round_head"
    /\ UNCHANGED <<swarmConfig, round_no, agentIdx, votes, sstate, history,
                   caller, invocations, graphAllVars, consensusVars, stateVars, serviceVars, part, view>>

\* if self.consensus.evaluate(strategy, votes): return state
ConsensusCheck ==
    /\ spc = "consensus"
    /\ LET res == evaluate(strategy, votes)
       IN  /\ evals' = Append(evals, [round |-> round_no, votes |-> votes,
                                      result |-> res])
           /\ spc' = IF res.raised # "none" THEN "raised"
                     ELSE IF res.value THEN "returned"
                     ELSE "round_head"
    /\ UNCHANGED <<swarmConfig, round_no, agentIdx, votes, sstate, history,
                   caller, invocations, graphAllVars, consensusVars, stateVars, serviceVars, part, view>>

NextSwarm ==
    \/ Orchestrate
    \/ RoundHead
    \/ AgentHead
    \/ \E msg \in {<<>>} \cup {<<c>> : c \in Contents}, err \in BOOLEAN :
          /\ err => msg = <<>>
          /\ AgentReturns(msg, err)
    \/ AgentRaises
    \/ ConsensusCheck

SpecSwarm == InitSwarm /\ [][NextSwarm]_vars


\* ------------------------------------------------------------------
\* The coordinator used more than once, and its conversation read.
\* ------------------------------------------------------------------

\* Orchestrate is called again only on a coordinator whose conversation
\* holds at most this many entries.
MaxReuseLog == 1

\* Limits handed to get_context_window.
Limits == {0, 1, 2}

\* self.history[-limit:]  (a slice from -0 is the whole list)
LastEntries(hist, limit) ==
    IF limit = 0 \/ limit >= Len(hist) THEN hist
    ELSE SubSeq(hist, Len(hist) - limit + 1, Len(hist))

\* SwarmConversation.get_context_window: one "[agent]: content" line per
\* recent entry
get_context_window(hist, limit) ==
    [i \in DOMAIN LastEntries(hist, limit) |->
        <<LastEntries(hist, limit)[i].agent_name,
          LastEntries(hist, limit)[i].content>>]

\* SwarmConversation.to_dict
to_dict(hist) == hist

swarmRunVars == <<swarmConfig, spc, round_no, agentIdx, votes, sstate,
                  caller, invocations, evals>>

\* The conversation is read between two orchestrate calls.
GetContextWindow(limit) ==
    /\ spc \in {"idle", "returned", "raised"}
    /\ view' = [op |-> "get_context_window",
                value |-> get_context_window(history, limit)]
    /\ UNCHANGED <<swarmRunVars, history, graphAllVars, consensusVars,
                   stateVars, serviceVars, part>>

ToDict ==
    /\ spc \in {"idle", "returned", "raised"}
    /\ view' = [op |-> "to_dict", value |-> to_dict(history)]
    /\ UNCHANGED <<swarmRunVars, history, graphAllVars, consensusVars,
                   stateVars, serviceVars, part>>

\* OrchestrateAgain as it would be if every call began a new conversation.
OrchestrateAgain_new_conversation ==
    /\ spc \in {"returned", "raised"}
    /\ Len(history) <= MaxReuseLog
    /\ spc' = "round_head"
    /\ round_no' = 0
    /\ caller' = sstate
    /\ invocations' = <<>>
    /\ evals' = <<>>
    /\ history' = <<>>
    /\ UNCHANGED <<swarmConfig, agentIdx, votes, sstate, view,
                   graphAllVars, consensusVars, stateVars, serviceVars, part>>

\* A further orchestrate(state) call on the same coordinator, with the state
\* the previous call left; the record of invocations and evaluations starts
\* anew, self.conversation is the object built in __init__.
OrchestrateAgain ==
    /\ spc \in {"returned", "raised"}
    /\ Len(history) <= MaxReuseLog
    /\ spc' = "round_head"
    /\ round_no' = 0
    /\ caller' = sstate
    /\ invocations' = <<>>
    /\ evals' = <<>>
    /\ UNCHANGED <<swarmConfig, agentIdx, votes, sstate, history, view,
                   graphAllVars, consensusVars, stateVars, serviceVars, part>>

\* What an agent appends in these runs: nothing, or one message.
ReuseOutputs == {<<>>, <<<<"F", "I", "X", "E", "D">>>>,
                 <<<<"f", "a", "i", "l", "e", "d">>>>}

InitConversation ==
    /\ InitSwarm
    /\ strategy = "majority"
    /\ caller = NewState

NextConversation ==
    \/ Orchestrate
    \/ RoundHead
    \/ AgentHead
    \/ \E msg \in ReuseOutputs : AgentReturns(msg, FALSE)
    \/ AgentRaises
    \/ ConsensusCheck
    \/ OrchestrateAgain
    \/ \E limit \in Limits : GetContextWindow(limit)
    \/ ToDict

SpecConversation == InitConversation /\ [][NextConversation]_vars


\* ------------------------------------------- vocabulary of the swarm claims
\* the drawn contents in which one of the four success substrings occurs,
\* whatever the case of the letters
SuccessContents == {
    <<"F", "I", "X", "E", "D">>,
    <<"T", "e", "s", "t", "s", " ", "p", "a", "s", "s", "e", "d">>,
    <<"S", "y", "n", "t", "a", "x", " ", "O", "K">>,
    <<"u", "n", "s", "u", "c", "c", "e", "s", "s", "f", "u", "l">> }

InvocationsOfRound(r) == {j \in DOMAIN invocations : invocations[j].round = r}

NoAgentRaised == \A j \in DOMAIN invocations : invocations[j].outcome # "raised"

\* no message of the state, old or new, holds a success substring
NoSuccessOutput ==
    \A i \in DOMAIN sstate.messages :
        sstate.messages[i].content \notin SuccessContents

\* every invocation so far appended a message holding a success substring
AllSuccessOutput ==
    \A j \in DOMAIN invocations :
        /\ invocations[j].appended # <<>>
        /\ invocations[j].appended[1] \in SuccessContents

\* C11: with agents whose outputs never hold a success substring and
\* max_rounds = N >= 1, orchestrate returns without raising after exactly N
\* rounds, i.e. N times the number of agents invocations.
C11_NoSuccessRunsAllRounds ==
    (spc \in {"returned", "raised"} /\ max_rounds >= 1 /\ NoAgentRaised
        /\ NoSuccessOutput)
    => /\ spc = "returned"
       /\ round_no = max_rounds
       /\ Len(invocations) = max_rounds * Len(agents)

\* C12: a consensus evaluation that succeeds ends orchestrate at once with
\* the state as it is, and nothing is invoked after the return; so when
\* every output holds a success substring the run is one round long, with as
\* many invocations as there are agents, whatever max_rounds >= 1 is.
C12_ConsensusReturnsAtOnce ==
    [][/\ (Len(evals') > Len(evals) /\ evals'[Len(evals')].result = Returns(TRUE))
            => /\ spc' = "returned"
               /\ sstate' = sstate
               /\ invocations' = invocations
       /\ spc # "returned"
       /\ (spc' = "returned" /\ agents # <<>> /\ max_rounds >= 1
              /\ AllSuccessOutput')
            => /\ round_no' = 1
               /\ Len(invocations') = Len(agents)]_vars

\* C12 witness: three agents, all reporting success, max_rounds = 5: returned
\* after three invocations.
C12_Witness ==
    /\ spc = "returned"
    /\ max_rounds = MAX_SWARM_ROUNDS
    /\ Len(agents) = 3
    /\ AllSuccessOutput
    /\ Len(invocations) = 3

\* C18: the vote recorded for an invocation is "success" exactly when the
\* message that this invocation appended holds one of the success
\* substrings; an invocation that appended no message gets no "success"
\* from a message written before it.
C18_VoteFromOwnMessage ==
    \A j \in DOMAIN invocations :
        invocations[j].outcome = "returned"
        => (invocations[j].vote = "success"
              <=> /\ invocations[j].appended # <<>>
                  /\ invocations[j].appended[1] \in SuccessContents)

\* C19: agents are invoked in list order, one after the other, each exactly
\* once per round, and every invocation receives the state the previous
\* invocation returned (the caller's state for the very first); a round that
\* reaches its consensus evaluation has invoked every agent.
C19_SequentialInListOrder ==
    /\ \A j \in DOMAIN invocations :
          /\ invocations[j].index = ((j - 1) % Len(agents)) + 1
          /\ invocations[j].round = ((j - 1) \div Len(agents)) + 1
          /\ invocations[j].name = agents[invocations[j].index]
          /\ invocations[j].received =
                (IF j = 1 THEN caller ELSE invocations[j - 1].result)
          /\ j < Len(invocations) => invocations[j].outcome = "returned"
    /\ spc \in {"round_head", "agent_head", "consensus", "returned"}
          => /\ \A j \in DOMAIN invocations : invocations[j].outcome = "returned"
             /\ sstate = (IF invocations = <<>> THEN caller
                          ELSE invocations[Len(invocations)].result)
    /\ (spc = "consensus" \/ \E i \in DOMAIN evals : evals[i].round = round_no)
          => Cardinality(InvocationsOfRound(round_no)) = Len(agents)

\* C19 witness: a round of three agents is complete and the second agent
\* was handed a state the first one had changed.
C19_Witness ==
    /\ spc = "consensus"
    /\ Len(agents) = 3
    /\ Len(invocations) = 3
    /\ invocations[2].received # caller
    /\ invocations[3].received # invocations[2].received

\* C20: when an agent raises, orchestrate ends with that failure: the agent
\* is not invoked again, no other agent is invoked afterwards, the round
\* gets no consensus evaluation, and the coordinator adds no error record,
\* no vote and no conversation entry for the failed invocation.
C20_FailurePropagates ==
    [][/\ spc # "raised"
       /\ (spc = "running" /\ invocations'[Len(invocations')].outcome = "raised")
            => /\ spc' = "raised"
               /\ sstate' = sstate
               /\ history' = history
               /\ votes' = votes
               /\ evals' = evals
               /\ Len(invocations') = Len(invocations)
       /\ spc' = "raised"
            => /\ Cardinality(InvocationsOfRound(round_no')) = agentIdx'
               /\ \A i \in DOMAIN evals' : evals'[i].round # round_no'
               /\ Len(history') = Len(invocations') - 1
               /\ sstate'.errors = invocations'[Len(invocations')].received.errors]_vars

\* C20 witness: the second of three agents raised after the first returned.
C20_Witness ==
    /\ spc = "raised"
    /\ Len(agents) = 3
    /\ Len(invocations) = 2
    /\ invocations[2].outcome = "raised"
    /\ Len(history) = 1


\* ------------------------------------------------ claims C21 .. (swarm)
\* the error records the first k invocations appended, in order: what each
\* returned state's errors hold beyond the errors of the state it received
RECURSIVE NodeErrors(_)
NodeErrors(k) ==
    IF k = 0 THEN <<>>
    ELSE NodeErrors(k - 1)
         \o SubSeq(invocations[k].result.errors,
                   Len(invocations[k].received.errors) + 1,
                   Len(invocations[k].result.errors))

\* C21: orchestrate itself never appends to state.errors: at every point of
\* the call, and so on return (converged or rounds exhausted), the errors
\* are the caller's errors followed by the records the invoked agents
\* appended, in invocation order, and nothing else.
C21_CoordinatorAddsNoError ==
    sstate.errors = caller.errors \o NodeErrors(Len(invocations))

\* C21 witness: orchestrate returned a state whose errors are the record the
\* caller brought followed by one an agent appended.
C21_Witness ==
    /\ spc = "returned"
    /\ caller.errors # <<>>
    /\ Len(invocations) >= 2
    /\ Len(sstate.errors) = Len(caller.errors) + 1
    /\ sstate.errors[Len(sstate.errors)].type = "syntax_error"


\* s is an initial segment of t
IsPrefix(s, t) == Len(s) <= Len(t) /\ SubSeq(t, 1, Len(s)) = s

\* invocations of the current call that returned
ReturnedCount ==
    Cardinality({j \in DOMAIN invocations : invocations[j].outcome = "returned"})

\* C22: the conversation log is append-only: a step either leaves it as it
\* is or appends one entry at its end; an entry is appended exactly when an
\* agent invocation returns, and it carries that agent's name and the
\* current round number; the entries of a call are, in order, its returned
\* invocations; a further orchestrate call on the same coordinator,
\* get_context_window and to_dict leave the log untouched.
C22_LogIsAppendOnly ==
    [][/\ IsPrefix(history, history')
       /\ Len(history') <= Len(history) + 1
       /\ (history' # history) <=> (spc = "running" /\ spc' = "agent_head")
       /\ (spc = "running" /\ spc' = "agent_head")
            => /\ history'[Len(history')].agent_name = agents[agentIdx]
               /\ history'[Len(history')].round = round_no
               /\ history'[Len(history')].role = "assistant"
       /\ Len(history') >= ReturnedCount'
       /\ \A j \in 1..ReturnedCount' :
            LET e == history'[Len(history') - ReturnedCount' + j]
            IN  /\ e.agent_name = invocations'[j].name
                /\ e.round = invocations'[j].round]_vars

\* C22 witness: a second orchestrate call on the coordinator has returned,
\* its entry follows the entry of the first call, and the log was read.
C22_Witness ==
    /\ spc = "returned"
    /\ Len(history) = 2
    /\ Len(invocations) = 1
    /\ history[1].agent_name = history[2].agent_name
    /\ view # <<>>
    /\ view.op = "get_context_window"
    /\ Len(view.value) = 1


\* C24: during orchestrate, step is incremented once per agent invocation:
\* the returned state's step is the caller's step plus the number of
\* invocations performed (the agents themselves leave step alone).
C24_StepCountsInvocations ==
    spc = "returned" => sstate.step = caller.step + Len(invocations)


\* C28: every configuration the coordinator runs has max_rounds >= 1 and a
\* non-empty agent list: with max_rounds < 1 or no agent, orchestrate does
\* not return the caller's state after zero invocations, the configuration
\* is rejected.
C28_ConfigIsValidated ==
    spc = "returned" => (max_rounds >= 1 /\ agents # <<>>)


\* ==================================================================
\* Part 4: NeuralState (core/graph_engine/state.py) operated on directly,
\* and BudgetManager (core/llm/budget.py).  Amounts of money are whole
\* numbers of millionths of a dollar.
\* ==================================================================

\* Longest messages / errors list built, and largest step reached.
MaxLog == 2
\* Largest distance of budget_used from zero.
MaxSpend == 2

\* BudgetManager.estimate_cost: price of one token for provider "openai"
\* (0.000002 dollars).
TokenPrice == 2

\* Artifact keys and values written.
Keys == {"k", "j"}
Values == {"v1", "v2"}
\* artifact_type arguments: absent or a type tag.
ArtifactTypes == {None, "code"}
\* Costs handed to update_budget (a float: nothing restricts its sign).
Costs == {-1, 1}
\* usage dictionaries handed to apply_cost: without "total_tokens", or with
\* a token count.
Usages == {<<>>} \cup {<<n>> : n \in {-1, 1}}
Providers == {"openai", "ollama"}

\* dict assignment d[key] = value
DictSet(d, key, value) ==
    [k \in (DOMAIN d) \cup {key} |-> IF k = key THEN value ELSE d[k]]

\* add_artifact as it would be with dict.setdefault in place of assignment.
add_artifact_keeps_first(st, key, value, artifact_type) ==
    [st EXCEPT
        !.artifacts = IF key \in DOMAIN @ THEN @ ELSE DictSet(@, key, value),
        !.artifacts_meta =
            IF artifact_type # None
            THEN DictSet(@, key, [artifact_type |-> artifact_type,
                                  metadata |-> <<>>])
            ELSE @]

\* NeuralState.add_artifact (metadata argument left at None)
add_artifact(st, key, value, artifact_type) ==
    [st EXCEPT
        !.artifacts = DictSet(@, key, value),
        !.artifacts_meta =
            IF artifact_type # None
            THEN DictSet(@, key, [artifact_type |-> artifact_type,
                                  metadata |-> <<>>])
            ELSE @]

\* NeuralState.get_artifact(key, default = None)
get_artifact(st, key) ==
    IF key \in DOMAIN st.artifacts THEN st.artifacts[key] ELSE None

\* NeuralState.update_budget
update_budget(st, cost) == [st EXCEPT !.budget_used = @ + cost]

\* BudgetManager.estimate_cost
estimate_cost(provider, usage) ==
    LET total_tokens == IF usage = <<>> THEN 0 ELSE usage[1]
    IN  IF provider = "openai" THEN total_tokens * TokenPrice ELSE 0

\* BudgetManager.apply_cost
apply_cost(st, provider, usage) ==
    update_budget(st, estimate_cost(provider, usage))

InitState ==
    /\ GraphIdle
    /\ ConsensusIdle
    /\ SwarmIdle
    /\ ServiceIdle
    /\ ns = NewState
    /\ nsCall = [op |-> "init", args |-> <<>>]
    /\ part = "state"

otherThanState == <<graphAllVars, swarmVars, consensusVars, serviceVars, part>>

NextStep ==
    /\ ns.step < MaxLog
    /\ ns' = [ns EXCEPT !.step = next_step(@)]
    /\ nsCall' = [op |-> "next_step", args |-> <<>>]
    /\ UNCHANGED otherThanState

AddMessage(content) ==
    /\ Len(ns.messages) < MaxLog
    /\ ns' = add_message(ns, "assistant", content, "Developer")
    /\ nsCall' = [op |-> "add_message", args |-> <<content>>]
    /\ UNCHANGED otherThanState

AddError(error_type) ==
    /\ Len(ns.errors) < MaxLog
    /\ ns' = [ns EXCEPT !.errors = add_error(@, error_type, "failed", <<>>)]
    /\ nsCall' = [op |-> "add_error", args |-> <<error_type>>]
    /\ UNCHANGED otherThanState

AddArtifact(key, value, artifact_type) ==
    /\ ns' = add_artifact(ns, key, value, artifact_type)
    /\ nsCall' = [op |-> "add_artifact", args |-> <<key, value, artifact_type>>]
    /\ UNCHANGED otherThanState

UpdateBudget(cost) ==
    /\ update_budget(ns, cost).budget_used \in -MaxSpend..MaxSpend
    /\ ns' = update_budget(ns, cost)
    /\ nsCall' = [op |-> "update_budget", args |-> <<cost>>]
    /\ UNCHANGED otherThanState

ApplyCost(provider, usage) ==
    /\ apply_cost(ns, provider, usage).budget_used \in -MaxSpend..MaxSpend
    /\ ns' = apply_cost(ns, provider, usage)
    /\ nsCall' = [op |-> "apply_cost", args |-> <<provider, usage>>]
    /\ UNCHANGED otherThanState

NextState ==
    \/ NextStep
    \/ \E c \in {<<"F", "I", "X", "E", "D">>, <<"f", "a", "i", "l", "e", "d">>} :
          AddMessage(c)
    \/ \E t \in {"syntax_error"} : AddError(t)
    \/ \E k \in Keys, v \in Values, t \in ArtifactTypes : AddArtifact(k, v, t)
    \/ \E cost \in Costs : UpdateBudget(cost)
    \/ \E p \in Providers, u \in Usages : ApplyCost(p, u)

SpecState == InitState /\ [][NextState]_vars


\* ==================================================================
\* Part 5: a run through any one of the entry points: engine.execute on a
\* registered graph, coordinator.orchestrate, or NeuralState operated on
\* directly.
\* ==================================================================

InitRun ==
    \/ Init
    \/ InitSwarm
    \/ InitState

NextRun ==
    \/ part = "graph" /\ Next
    \/ part = "swarm" /\ NextSwarm
    \/ part = "state" /\ NextState

SpecRun == InitRun /\ [][NextRun]_vars


\* ------------------------------------------------ claims on any run
\* C25: under every NeuralState operation and every step of execute and of
\* orchestrate, messages and errors change only by appending at the end
\* (so every earlier sequence is a prefix of every later one), and step
\* never decreases.
C25_LogsGrowStepNeverDrops ==
    [][/\ IsPrefix(ns.messages, ns'.messages)
       /\ IsPrefix(ns.errors, ns'.errors)
       /\ ns'.step >= ns.step
       /\ IsPrefix(errors, errors')
       /\ step' >= step
       /\ IsPrefix(sstate.messages, sstate'.messages)
       /\ IsPrefix(sstate.errors, sstate'.errors)
       /\ sstate'.step >= sstate.step]_vars

\* C25 witness: a state on which every operation has been used: two
\* different messages, two error records, two steps, an artifact written and the
\* budget counter moved.
C25_Witness ==
    /\ Len(ns.messages) = 2
    /\ ns.messages[1] # ns.messages[2]
    /\ Len(ns.errors) = 2
    /\ ns.step = 2
    /\ DOMAIN ns.artifacts # {}
    /\ ns.budget_used # 0


\* ------------------------------------------------ claims on NeuralState
\* C26: add_artifact(k, v) leaves artifacts[k] equal to v alone, whatever k
\* held before (a second write replaces the first, it does not merge);
\* it changes no other key and leaves messages, errors, step, budget and
\* budget_used as they were; and writing the same key and value again
\* changes nothing.
C26_ArtifactLastWriteWins ==
    [][nsCall'.op = "add_artifact"
        => LET k == nsCall'.args[1]
               v == nsCall'.args[2]
               t == nsCall'.args[3]
           IN  /\ DOMAIN ns'.artifacts = (DOMAIN ns.artifacts) \cup {k}
               /\ ns'.artifacts[k] = v
               /\ get_artifact(ns', k) = v
               /\ \A j \in (DOMAIN ns.artifacts) \ {k} :
                     ns'.artifacts[j] = ns.artifacts[j]
               /\ ns'.messages = ns.messages
               /\ ns'.errors = ns.errors
               /\ ns'.step = ns.step
               /\ ns'.budget = ns.budget
               /\ ns'.budget_used = ns.budget_used
               /\ add_artifact(ns', k, v, t) = ns']_vars

\* C26 witness: key "k", written earlier with a type tag, has just been
\* overwritten with "v2" on a state that holds another key, a message, an
\* error record, a step and a moved budget counter.
C26_Witness ==
    /\ nsCall.op = "add_artifact"
    /\ nsCall.args = <<"k", "v2", None>>
    /\ "k" \in DOMAIN ns.artifacts_meta
    /\ "j" \in DOMAIN ns.artifacts
    /\ ns.artifacts["j"] = "v1"
    /\ ns.messages # <<>>
    /\ ns.errors # <<>>
    /\ ns.step > 0
    /\ ns.budget_used # 0


\* C29: budget_used never decreases: under every update_budget and
\* apply_cost call, with any cost or usage the call accepts, the new value
\* is at least the old one.
C29_BudgetUsedNeverDecreases ==
    [][ns'.budget_used >= ns.budget_used]_vars


\* node invocations of execute that have started and neither returned nor
\* raised
InFlightGraph ==
    SumAttempts(Names) - Len(completed) - CountType(errors, "node_execution")

\* agent invocations of orchestrate that have started and neither returned
\* nor raised
InFlightSwarm ==
    Cardinality({j \in DOMAIN invocations : invocations[j].outcome = "running"})

\* C27: within one execute or orchestrate call at most one node invocation
\* is in progress at any instant: an attempt (a retry included) or an agent
\* call starts only when every earlier one has returned or raised, and one
\* is in progress exactly while the caller is suspended on it.
C27_OneInvocationAtATime ==
    /\ InFlightGraph \in {0, 1}
    /\ InFlightGraph = 1 <=> pc = "running"
    /\ InFlightSwarm \in {0, 1}
    /\ InFlightSwarm = 1 <=> spc = "running"

\* C27 witness: execute is suspended on the retry of its second node; the
\* first node's invocation and the second node's failed attempt are over.
C27_Witness ==
    /\ pc = "running"
    /\ retries = 1
    /\ Len(completed) = 1
    /\ CountType(errors, "node_execution") = 1
    /\ SumAttempts(Names) = 3


\* the budget is used up
BudgetExhausted == budget_used >= budget

\* C30: neither execute nor orchestrate stops, skips a node or records an
\* error because budget_used has reached budget.  Every decision is the one
\* the rest of the state fixes, whatever budget and budget_used are: a node
\* that is due is invoked; execute returns only at the end of the
\* traversal, on a cycle or on the time ceiling; orchestrate returns only on
\* consensus or when the rounds are used up; and error records come only
\* from a failed attempt, a cycle, the time ceiling or an agent.
C30_BudgetIsNotEnforced ==
    [][/\ (pc = "loop" /\ current # None /\ current \notin visited)
            => pc' = "retry"
       /\ (pc = "retry" /\ retries <= max_retries) => pc' = "running"
       /\ pc' = "returned"
            => \/ pc = "loop" /\ (current = None \/ current \in visited)
               \/ pc = "after_node" /\ CeilingExceeded
       /\ errors' # errors
            => \/ pc = "running" /\ pc' \in {"retry", "raised"}
               \/ pc = "loop" /\ current \in visited
               \/ pc = "after_node" /\ CeilingExceeded
       /\ (spc = "round_head" /\ round_no < max_rounds) => spc' = "agent_head"
       /\ (spc = "agent_head" /\ agentIdx < Len(agents)) => spc' = "running"
       /\ spc' = "returned"
            => \/ spc = "consensus" /\ evaluate(strategy, votes) = Returns(TRUE)
               \/ spc = "round_head" /\ round_no >= max_rounds
       /\ sstate'.errors # sstate.errors => spc = "running"]_vars

\* C30 witness: on a state whose budget was used up from the start, under
\* the shipped settings, execute has invoked its start node, recorded the
\* failure and invoked the node again.
C30_Witness ==
    /\ BudgetExhausted
    /\ ~hasCeiling
    /\ pc = "running"
    /\ retries = 1
    /\ CountType(errors, "node_execution") = 1
    /\ Len(errors) = 1

\* C33: within one execute call no node is executed to completion more than
\* once: when the loop arrives at a node that was already visited (also
\* through a conditional edge), the very next step returns with a graph_cycle
\* record appended and without a further attempt, so every node name occurs
\* at most once among the completed executions and their number is at most
\* the number of registered nodes.
C33_NoNodeCompletesTwice ==
    [][/\ (pc = "loop" /\ current # None /\ current \in visited)
            => /\ pc' = "returned"
               /\ Len(errors') = Len(errors) + 1
               /\ errors'[Len(errors')].type = "graph_cycle"
               /\ attempts' = attempts
               /\ completed' = completed
       /\ \A n \in Names :
            Cardinality({i \in DOMAIN completed' : completed'[i] = n}) <= 1
       /\ Len(completed') <= Cardinality(nodes')]_vars

\* A loop that would end by itself: the second node completed and its
\* has_errors edge led back to the first one, where the walk was aborted.
C33_Witness ==
    /\ pc = "returned"
    /\ Len(completed) = 2
    /\ current = completed[1]
    /\ errors # <<>>
    /\ errors[Len(errors)].type = "graph_cycle"
    /\ \E i \in DOMAIN edges :
        /\ edges[i].condition = "has_errors"
        /\ edges[i].source = completed[2]
        /\ edges[i].target = completed[1]
        /\ FirstSatisfiedTarget(completed[2], errors) = completed[1]

\* C39: when a node has completed, no outgoing edge of it is satisfied and
\* the elapsed time exceeds the ceiling, the next step of execute appends a
\* graph_timeout record and returns.
C39_TimeoutRecordedAtEndOfWalk ==
    [][(/\ pc = "after_node"
        /\ CeilingExceeded
        /\ NextNode(edges, 1, current, errors) = None)
       => /\ pc' = "returned"
          /\ Len(errors') = Len(errors) + 1
          /\ errors'[Len(errors')].type = "graph_timeout"]_vars

\* C32: in orchestrate the consensus evaluation happens exactly once per
\* round, and only when every agent of the round has been invoked and has
\* returned; the coordinator moves only from the start of a round to the
\* agents in turn, from the last agent to the evaluation, and from the
\* evaluation to the return (consensus), to the next round (no consensus) or,
\* rounds used up, to the return; so there are never more than
\* max_rounds x number-of-agents invocations.
C32_OneEvaluationPerRound ==
    [][/\ Len(evals') > Len(evals)
            => /\ spc = "consensus"
               /\ Len(evals') = round_no
               /\ evals'[round_no].round = round_no
               /\ Cardinality(InvocationsOfRound(round_no)) = Len(agents)
               /\ \A j \in InvocationsOfRound(round_no) :
                    invocations[j].outcome = "returned"
       /\ Len(invocations') > Len(invocations)
            => Len(evals) = round_no - 1
       /\ spc' # spc
            => \/ spc = "idle" /\ spc' = "round_head"
               \/ spc = "round_head" /\ spc' = "agent_head"
                    /\ round_no' = round_no + 1 /\ Len(evals) = round_no
               \/ spc = "agent_head" /\ spc' = "running"
               \/ spc = "running" /\ spc' \in {"agent_head", "raised"}
               \/ spc = "agent_head" /\ spc' = "consensus"
                    /\ agentIdx = Len(agents)
               \/ spc = "consensus" /\ spc' = "returned"
                    /\ evals'[round_no].result = Returns(TRUE)
               \/ spc = "consensus" /\ spc' = "round_head"
                    /\ evals'[round_no].result = Returns(FALSE)
               \/ spc = "round_head" /\ spc' = "returned"
                    /\ round_no = max_rounds /\ Len(evals) = round_no
       /\ Len(invocations') <= max_rounds * Len(agents)]_vars

\* A round of two agents, both returned, evaluated once and converged with a
\* round to spare.
C32_Witness ==
    /\ spc = "returned"
    /\ Len(agents) = 2
    /\ max_rounds = 2
    /\ Len(evals) = 1
    /\ Len(evals[1].votes) = 2
    /\ ReturnedCount = 2

\* C36: with a non-empty agent list, max_rounds >= 1 and agents that return,
\* orchestrate returns after exactly one round under every strategy and
\* whatever the messages hold: every derived vote is "success" or "pass",
\* and the one evaluation, which counts both, is true.
C36_AlwaysOneRound ==
    /\ \A j \in DOMAIN invocations :
        invocations[j].outcome = "returned"
        => invocations[j].vote \in {"success", "pass"}
    /\ (agents # <<>> /\ max_rounds >= 1 /\ NoAgentRaised) => round_no <= 1
    /\ (spc \in {"returned", "raised"} /\ agents # <<>> /\ max_rounds >= 1
            /\ NoAgentRaised)
        => /\ spc = "returned"
           /\ round_no = 1
           /\ Len(invocations) = Len(agents)
           /\ Len(evals) = 1
           /\ evals[1].result = Returns(TRUE)

\* Three agents none of which reports success, unanimity wanted, five rounds
\* allowed: returned after the first round.
C36_Witness ==
    /\ spc = "returned"
    /\ strategy = "unanimity"
    /\ max_rounds = MAX_SWARM_ROUNDS
    /\ Len(agents) = 3
    /\ \A j \in DOMAIN invocations : invocations[j].vote = "pass"
    /\ round_no = 1

\* ------------------------------------------------------------------
\* TaskQueueManager (core/queue/manager.py): the thread that calls start()
\* and stop(), the worker thread of _worker_loop, the pool threads of the
\* executor, and request threads calling submit_task and cancel_task.
\* Every block under self._lock is one step.
\* ------------------------------------------------------------------
MaxTasks == 3
MaxWorkers == 2

TaskIds == 1..MaxTasks

\* class TaskStatus
TaskStatus == {"PENDING", "RUNNING", "COMPLETED", "FAILED", "CANCELLED"}

\* Task(...) as submit_task builds it: status PENDING, no timestamps but
\* created_at, no result, no error.
NewTask == [status |-> "PENDING", started_at |-> None, completed_at |-> None,
            result |-> None, error |-> None]

\* TaskQueueManager(max_workers), not yet started.
InitQueue ==
    /\ GraphIdle
    /\ ConsensusIdle
    /\ SwarmIdle
    /\ StateIdle
    /\ RouterIdle
    /\ tasks = <<>>
    /\ task_queue = <<>>
    /\ running = FALSE
    /\ max_workers \in 1..MaxWorkers
    /\ workerThread = "dead"
    /\ workerTask = 0
    /\ executorShutdown = FALSE
    /\ workItems = <<>>
    /\ poolThreads = {}
    /\ lifecycle = "ready"
    /\ qCall = [op |-> "init", id |-> 0, result |-> None]
    /\ processed = <<>>
    /\ part = "queue"

otherThanQueue == <<graphAllVars, swarmVars, consensusVars, stateVars,
                    routerVars, part>>

\* start(): nothing when already running; else mark running and start a new
\* worker thread.
start_worker ==
    /\ lifecycle = "ready"
    /\ IF running
       THEN UNCHANGED <<running, workerThread>>
       ELSE /\ running' = TRUE
            /\ workerThread' = "loop"
    /\ UNCHANGED <<tasks, task_queue, max_workers, workerTask,
                   executorShutdown, workItems, poolThreads, lifecycle,
                   qCall, processed, otherThanQueue>>

\* stop(), first statement: self._running = False; then the join begins.
stop_worker ==
    /\ lifecycle = "ready"
    /\ running' = FALSE
    /\ lifecycle' = "join"
    /\ UNCHANGED <<tasks, task_queue, max_workers, workerThread, workerTask,
                   executorShutdown, workItems, poolThreads, qCall,
                   processed, otherThanQueue>>

\* stop(): the join returns once the worker thread has left its loop (an
\* iteration takes at most the one-second get timeout, the join waits five);
\* then executor.shutdown marks the executor as shut down.
StopJoined ==
    /\ lifecycle = "join"
    /\ workerThread = "dead"
    /\ executorShutdown' = TRUE
    /\ lifecycle' = "shutdown"
    /\ UNCHANGED <<tasks, task_queue, running, max_workers, workerThread,
                   workerTask, workItems, poolThreads, qCall, processed,
                   otherThanQueue>>

\* stop(): shutdown(wait=True) returns when the queued work is done.
StopReturns ==
    /\ lifecycle = "shutdown"
    /\ workItems = <<>>
    /\ poolThreads = {}
    /\ lifecycle' = "ready"
    /\ UNCHANGED <<tasks, task_queue, running, max_workers, workerThread,
                   workerTask, executorShutdown, workItems, poolThreads,
                   qCall, processed, otherThanQueue>>

\* _worker_loop: while self._running
WorkerLoop ==
    /\ workerThread = "loop"
    /\ workerThread' = IF running THEN "get" ELSE "dead"
    /\ UNCHANGED <<tasks, task_queue, running, max_workers, workerTask,
                   executorShutdown, workItems, poolThreads, lifecycle,
                   qCall, processed, otherThanQueue>>

\* task_id = self.task_queue.get(timeout=1.0); Empty -> continue
WorkerGet ==
    /\ workerThread = "get"
    /\ IF task_queue = <<>>
       THEN /\ workerThread' = "loop"
            /\ UNCHANGED <<task_queue, workerTask>>
       ELSE /\ workerTask' = Head(task_queue)
            /\ task_queue' = Tail(task_queue)
            /\ workerThread' = "submit"
    /\ UNCHANGED <<tasks, running, max_workers, executorShutdown, workItems,
                   poolThreads, lifecycle, qCall, processed, otherThanQueue>>

\* self.executor.submit(self._process_task, task_id): on an executor that
\* was shut down submit raises RuntimeError, which "except Exception" prints;
\* the loop goes on and the task id is gone.
WorkerSubmit ==
    /\ workerThread = "submit"
    /\ workItems' = IF executorShutdown THEN workItems
                    ELSE Append(workItems, workerTask)
    /\ workerTask' = 0
    /\ workerThread' = "loop"
    /\ UNCHANGED <<tasks, task_queue, running, max_workers, executorShutdown,
                   poolThreads, lifecycle, qCall, processed, otherThanQueue>>

\* A free pool thread takes the next work item: _process_task, first block
\* under the lock: unknown id -> return; else status = RUNNING, started_at.
ProcessBegin ==
    /\ workItems # <<>>
    /\ Cardinality(poolThreads) < max_workers
    /\ LET task_id == Head(workItems)
       IN  IF task_id \notin DOMAIN tasks
           THEN UNCHANGED <<tasks, poolThreads>>
           ELSE /\ tasks' = [tasks EXCEPT ![task_id].status = "RUNNING",
                                          ![task_id].started_at = "now"]
                /\ poolThreads' = poolThreads \cup {task_id}
    /\ workItems' = Tail(workItems)
    /\ UNCHANGED <<task_queue, running, max_workers, workerThread, workerTask,
                   executorShutdown, lifecycle, qCall, processed,
                   otherThanQueue>>

\* _process_task, the rest: the pipeline has run; under the lock the task
\* becomes COMPLETED with a result, or FAILED with the error.
ProcessEnd(task_id, ok) ==
    /\ task_id \in poolThreads
    /\ processed' = [processed EXCEPT ![task_id] = @ + 1]
    /\ tasks' = IF ok
                THEN [tasks EXCEPT ![task_id].status = "COMPLETED",
                                   ![task_id].completed_at = "now",
                                   ![task_id].result = "state"]
                ELSE [tasks EXCEPT ![task_id].status = "FAILED",
                                   ![task_id].completed_at = "now",
                                   ![task_id].error = "error_msg"]
    /\ poolThreads' = poolThreads \ {task_id}
    /\ UNCHANGED <<task_queue, running, max_workers, workerThread, workerTask,
                   executorShutdown, workItems, lifecycle, qCall,
                   otherThanQueue>>

\* submit_task: a fresh id; under the lock the task is stored and queued.
submit_task ==
    /\ Len(tasks) < MaxTasks
    /\ LET task_id == Len(tasks) + 1
       IN  /\ tasks' = Append(tasks, NewTask)
           /\ task_queue' = Append(task_queue, task_id)
           /\ processed' = Append(processed, 0)
           /\ qCall' = [op |-> "submit_task", id |-> task_id,
                        result |-> task_id]
    /\ UNCHANGED <<running, max_workers, workerThread, workerTask,
                   executorShutdown, workItems, poolThreads, lifecycle,
                   otherThanQueue>>

\* cancel_task as it would be without the test for PENDING.
cancel_task_any_status(task_id) ==
    /\ IF task_id \notin DOMAIN tasks
       THEN /\ qCall' = [op |-> "cancel_task", id |-> task_id,
                         result |-> FALSE]
            /\ UNCHANGED tasks
       ELSE /\ tasks' = [tasks EXCEPT ![task_id].status = "CANCELLED",
                                      ![task_id].completed_at = "now"]
            /\ qCall' = [op |-> "cancel_task", id |-> task_id,
                         result |-> TRUE]
    /\ UNCHANGED <<task_queue, running, max_workers, workerThread, workerTask,
                   executorShutdown, workItems, poolThreads, lifecycle,
                   processed, otherThanQueue>>

\* cancel_task, under the lock: False for an unknown or non-PENDING task;
\* else status = CANCELLED, completed_at = now, True.
cancel_task(task_id) ==
    /\ IF task_id \notin DOMAIN tasks \/ tasks[task_id].status # "PENDING"
       THEN /\ qCall' = [op |-> "cancel_task", id |-> task_id,
                         result |-> FALSE]
            /\ UNCHANGED tasks
       ELSE /\ tasks' = [tasks EXCEPT ![task_id].status = "CANCELLED",
                                      ![task_id].completed_at = "now"]
            /\ qCall' = [op |-> "cancel_task", id |-> task_id,
                         result |-> TRUE]
    /\ UNCHANGED <<task_queue, running, max_workers, workerThread, workerTask,
                   executorShutdown, workItems, poolThreads, lifecycle,
                   processed, otherThanQueue>>

\* Steps of the worker thread and of the pool threads.
WorkerStep == WorkerLoop \/ WorkerGet \/ WorkerSubmit
PoolStep == ProcessBegin \/ \E t \in TaskIds, ok \in BOOLEAN : ProcessEnd(t, ok)

NextQueue ==
    \/ start_worker
    \/ stop_worker
    \/ StopJoined
    \/ StopReturns
    \/ WorkerLoop
    \/ WorkerGet
    \/ WorkerSubmit
    \/ ProcessBegin
    \/ \E t \in TaskIds, ok \in BOOLEAN : ProcessEnd(t, ok)
    \/ submit_task
    \/ \E t \in TaskIds : cancel_task(t)

SpecQueue == InitQueue /\ [][NextQueue]_vars

\* The scheduler lets the worker thread, the pool threads and a stop() in
\* progress take their steps; nothing obliges callers to call anything.
SpecQueueFair ==
    /\ SpecQueue
    /\ WF_vars(WorkerStep)
    /\ WF_vars(PoolStep)
    /\ WF_vars(StopJoined \/ StopReturns)

\* ------------------------------------------------- claims about the queue
RunningTasks == {t \in DOMAIN tasks : tasks[t].status = "RUNNING"}

\* C31: a task that was cancelled keeps the status CANCELLED and no pool
\* thread takes it up, whatever the worker and the pool threads do.
C31_CancelledIsSkipped ==
    [][\A t \in DOMAIN tasks :
        tasks[t].status = "CANCELLED"
        => /\ tasks'[t].status = "CANCELLED"
           /\ t \notin poolThreads']_vars

\* C34: cancel_task on an unknown id or on a task that is not PENDING
\* returns False and leaves every task as it is; on a PENDING task it
\* returns True and sets status CANCELLED and completed_at in one step; a
\* task becomes CANCELLED in no other way, and no state shows a CANCELLED
\* task without completed_at.
C34_CancelOnlyPending ==
    [][/\ (qCall' # qCall /\ qCall'.op = "cancel_task")
            => LET t == qCall'.id
               IN  IF t \notin DOMAIN tasks \/ tasks[t].status # "PENDING"
                   THEN /\ qCall'.result = FALSE
                        /\ tasks' = tasks
                   ELSE /\ qCall'.result = TRUE
                        /\ tasks' = [tasks EXCEPT ![t].status = "CANCELLED",
                                                  ![t].completed_at = "now"]
       /\ \A t \in DOMAIN tasks :
            (tasks'[t].status = "CANCELLED" /\ tasks[t].status # "CANCELLED")
            => /\ tasks[t].status = "PENDING"
               /\ qCall' = [op |-> "cancel_task", id |-> t, result |-> TRUE]
       /\ \A t \in DOMAIN tasks' :
            tasks'[t].status = "CANCELLED" => tasks'[t].completed_at # None
      ]_vars

\* A cancellation that succeeded while a pool thread was processing another
\* task, and a later one of a running task that was refused.
C34_Witness ==
    /\ Len(tasks) = 3
    /\ tasks[2].status = "CANCELLED"
    /\ tasks[1].status = "RUNNING"
    /\ tasks[1].completed_at = None
    /\ qCall = [op |-> "cancel_task", id |-> 1, result |-> FALSE]

\* C37: while the manager is running, a submitted task that is not cancelled
\* is eventually COMPLETED or FAILED (unless it is cancelled or the manager
\* is stopped first); also after a stop() followed by a new start().
C37_SubmittedTasksFinish ==
    \A t \in TaskIds :
        (/\ t \in DOMAIN tasks
         /\ running
         /\ tasks[t].status \in {"PENDING", "RUNNING"})
        ~> (\/ ~running
            \/ /\ t \in DOMAIN tasks
               /\ tasks[t].status \in {"COMPLETED", "FAILED", "CANCELLED"})

\* C38: each task's pipeline is run at most once; a status changes only
\* from PENDING to RUNNING and from RUNNING to COMPLETED or FAILED (and, by
\* cancel_task, from PENDING to CANCELLED); a COMPLETED or FAILED task never
\* changes again; never more than max_workers tasks are RUNNING.
C38_StatusProgression ==
    [][\A t \in DOMAIN tasks :
        /\ tasks'[t].status # tasks[t].status
            => <<tasks[t].status, tasks'[t].status>> \in
                  {<<"PENDING", "RUNNING">>, <<"RUNNING", "COMPLETED">>,
                   <<"RUNNING", "FAILED">>, <<"PENDING", "CANCELLED">>}
        /\ tasks[t].status \in {"COMPLETED", "FAILED"} => tasks'[t] = tasks[t]
        /\ processed'[t] <= 1
        /\ Cardinality(RunningTasks') <= max_workers]_vars

\* ------------------------------------------------------------------
\* LLMRouter.route (core/llm/router.py)
\* ------------------------------------------------------------------
MaxMsgs == 2

\* Message contents drawn: one without and one with the marker.
RouterContents == {<<"h", "i">>, <<"a", "@", "b">>}

\* Lists of chat messages; an absent messages argument is the empty list.
MessageLists ==
    UNION {[1..n -> [role : {"user"}, content : RouterContents]] :
              n \in 0..MaxMsgs}

\* str(msgs), as far as the test looks at it: the message contents in order.
RECURSIVE Str(_)
Str(msgs) ==
    IF msgs = <<>> THEN <<>> ELSE Head(msgs).content \o Str(Tail(msgs))

\* msgs = messages or state.messages
Msgs == IF routeMessages # <<>> THEN routeMessages ELSE stateMessages

\* contains_pii = "@" in str(msgs)
contains_pii(msgs) == Contains(<<"@">>, Str(msgs))

\* UseLocal as it would be if only the missing key sent a request to the
\* local model.
UseLocal_key_only(msgs) == ~apiKey

\* if contains_pii or not settings.OPENAI_API_KEY
UseLocal(msgs) == contains_pii(msgs) \/ ~apiKey

InitRouter ==
    /\ GraphIdle
    /\ ConsensusIdle
    /\ SwarmIdle
    /\ StateIdle
    /\ QueueIdle
    /\ routeMessages \in MessageLists
    /\ stateMessages \in MessageLists
    /\ apiKey \in BOOLEAN
    /\ rpc = "idle"
    /\ requests = <<>>
    /\ response = <<>>
    /\ part = "router"

otherThanRouter == <<graphAllVars, swarmVars, consensusVars, stateVars,
                     queueVars, part>>

\* route(state, messages), entry: the choice of the primary model.
Route ==
    /\ rpc = "idle"
    /\ rpc' = IF UseLocal(Msgs) THEN "local" ELSE "cloud"
    /\ UNCHANGED <<routeMessages, stateMessages, apiKey, requests, response,
                   otherThanRouter>>

\* _call_openai: the request is sent; any failure raises, and the except
\* branch of route turns to the fallback.
CallOpenAI(ok) ==
    /\ rpc = "cloud"
    /\ requests' = Append(requests, "openai")
    /\ IF ok
       THEN /\ response' = <<"openai">>
            /\ rpc' = "returned"
       ELSE /\ rpc' = "fallback"
            /\ UNCHANGED response
    /\ UNCHANGED <<routeMessages, stateMessages, apiKey, otherThanRouter>>

\* _call_ollama, as primary or as fallback: status 200 gives the answer, a
\* connection error gives the mock answer, anything else raises; raised in
\* the primary call it leads to the fallback, raised in the fallback to the
\* error response.
CallOllama(outcome) ==
    /\ rpc \in {"local", "fallback"}
    /\ requests' = Append(requests, "ollama")
    /\ IF outcome = "ok"
       THEN /\ response' = <<"ollama">>
            /\ rpc' = "returned"
       ELSE IF outcome = "ConnectError"
       THEN /\ response' = <<"local_error">>
            /\ rpc' = "returned"
       ELSE IF rpc = "local"
       THEN /\ rpc' = "fallback"
            /\ UNCHANGED response
       ELSE /\ response' = <<"none">>
            /\ rpc' = "returned"
    /\ UNCHANGED <<routeMessages, stateMessages, apiKey, otherThanRouter>>

NextRouter ==
    \/ Route
    \/ \E ok \in BOOLEAN : CallOpenAI(ok)
    \/ \E outcome \in {"ok", "ConnectError", "Exception"} : CallOllama(outcome)

SpecRouter == InitRouter /\ [][NextRouter]_vars

\* C35: when the messages hold the marker "@", route sends no request to
\* the cloud provider: every request of the call, the primary one and the
\* fallback after a failure, goes to the local model, whether or not a key
\* is configured and whatever the transport does.
C35_PiiStaysLocal ==
    contains_pii(Msgs)
    => /\ \A i \in DOMAIN requests : requests[i] = "ollama"
       /\ rpc # "cloud"
       /\ response # <<"openai">>
       /\ rpc = "returned" => requests # <<>>

\* A key is configured, the marker comes from state.messages, the primary
\* call failed and the fallback answered.
C35_Witness ==
    /\ contains_pii(Msgs)
    /\ routeMessages = <<>>
    /\ apiKey
    /\ rpc = "returned"
    /\ requests = <<"ollama", "ollama">>
    /\ response = <<"ollama">>

====
